---- MODULE Spec2Model ----
(***************************************************************************)
(* Model of the Telegram -> Gemini relay bot (src/main.py).                *)
(*                                                                         *)
(* A Python str is a sequence of string tokens (concatenation is \o), a    *)
(* bytes object is a sequence of integers 0..255, Python's None is the     *)
(* token "None".  Each update is handled by a task whose position (pc)     *)
(* moves through the await points of its handler.                          *)
(***************************************************************************)
EXTENDS Integers, Sequences, FiniteSets, TLC

VARIABLES
    concurrent_updates, \* Application setting: may handlers of two updates interleave
    pc,                 \* task -> position in process_update / the handler
    msg,                \* task -> update.message being handled
    invoked,            \* task -> handler callbacks process_update started for the update
    file,               \* task -> attachment object/File obtained by get_file
    bio,                \* frame -> BytesIO the attachment was downloaded to
    reader,             \* task -> pages PdfReader found in the document
    requests,           \* task -> parts lists posted to the completion provider
    resp,               \* task -> name of the provider's response to the last post
    result,             \* task -> outcome of the last call_gemini
    reply,              \* task -> the handler's local `reply`
    sent                \* task -> replies sent through update.message.reply_text

vars == <<concurrent_updates, pc, msg, invoked, file, bio, reader, requests, resp, result, reply, sent>>

----------------------------------------------------------------------------
(* Bounds *)

MaxPages == 3

Tasks == {"t1", "t2"}
Chats == {"A", "B"}

None == "None"

----------------------------------------------------------------------------
(* Platform objects *)

NoAtt == [present |-> FALSE, mime_type |-> None, file_id |-> "none"]

Att(mime, fid) == [present |-> TRUE, mime_type |-> mime, file_id |-> fid]

NoMsg ==
    [chat |-> "none", text |-> <<>>, photo |-> <<>>, document |-> NoAtt,
     audio |-> NoAtt, voice |-> NoAtt, video |-> NoAtt]

TextValues == {<<"hello">>, <<"/start">>, <<"/help">>}
PhotoValues == {<<"photo_thumb">>, <<"photo_thumb", "photo_large">>}
DocumentValues ==
    {Att("application/pdf", "doc"), Att("application/zip", "doc"), Att(None, "doc")}
AudioValues == {Att("audio/mpeg", "audio"), Att(None, "audio")}
VoiceValues == {Att("audio/ogg", "voice"), Att(None, "voice")}
VideoValues == {Att("video/quicktime", "video"), Att(None, "video")}

AllMessages ==
    [chat : Chats,
     text : TextValues \cup {<<>>},
     photo : PhotoValues \cup {<<>>},
     document : DocumentValues \cup {NoAtt},
     audio : AudioValues \cup {NoAtt},
     voice : VoiceValues \cup {NoAtt},
     video : VideoValues \cup {NoAtt}]

Kinds(m) ==
    {k \in {"text", "photo", "document", "audio", "voice", "video"} :
        \/ k = "text" /\ m.text # <<>>
        \/ k = "photo" /\ m.photo # <<>>
        \/ k = "document" /\ m.document.present
        \/ k = "audio" /\ m.audio.present
        \/ k = "voice" /\ m.voice.present
        \/ k = "video" /\ m.video.present}

\* Updates the platform delivers: a message carries one kind of content, a
\* service message none; to exercise the handler precedence, two kinds too.
Messages == {m \in AllMessages : Cardinality(Kinds(m)) <= 2}

\* Messages as the Bot API produces them: one kind of content each.
PlainMessages ==
    {m \in AllMessages :
        /\ Cardinality(Kinds(m)) = 1
        /\ m.text \in {<<>>, <<"hello">>, <<"/start">>}
        /\ m.photo \in {<<>>, <<"photo_thumb", "photo_large">>}
        /\ m.document.mime_type # None \/ ~m.document.present}

ChatByte(c) == IF c = "A" THEN 65 ELSE 66

FileByte(fid) ==
    CASE fid = "photo_thumb" -> 1
      [] fid = "photo_large" -> 2
      [] fid = "doc" -> 3
      [] fid = "audio" -> 4
      [] fid = "voice" -> 5
      [] fid = "video" -> 250
      [] OTHER -> 0

\* Content of the file the platform hosts for an attachment of a chat.
Storage(c, fid) == <<ChatByte(c), FileByte(fid)>>

----------------------------------------------------------------------------
(* base64.b64encode(...).decode('utf-8') *)

B64Alphabet ==
    <<"A","B","C","D","E","F","G","H","I","J","K","L","M","N","O","P",
      "Q","R","S","T","U","V","W","X","Y","Z","a","b","c","d","e","f",
      "g","h","i","j","k","l","m","n","o","p","q","r","s","t","u","v",
      "w","x","y","z","0","1","2","3","4","5","6","7","8","9","+","/">>

B64Char(n) == B64Alphabet[(n % 64) + 1]

B64Block(b) ==
    LET b1 == b[1]
        b2 == IF Len(b) >= 2 THEN b[2] ELSE 0
        b3 == IF Len(b) >= 3 THEN b[3] ELSE 0
        n  == b1 * 65536 + b2 * 256 + b3
    IN  <<B64Char(n \div 262144),
          B64Char(n \div 4096),
          IF Len(b) >= 2 THEN B64Char(n \div 64) ELSE "=",
          IF Len(b) >= 3 THEN B64Char(n) ELSE "=">>

RECURSIVE B64Encode(_)
B64Encode(bytes) ==
    IF bytes = <<>> THEN <<>>
    ELSE IF Len(bytes) <= 3 THEN B64Block(bytes)
    ELSE B64Block(SubSeq(bytes, 1, 3)) \o B64Encode(SubSeq(bytes, 4, Len(bytes)))

----------------------------------------------------------------------------
(* Request parts *)

TextPart(s) == [kind |-> "text", text |-> s, mimeType |-> "", data |-> <<>>]

MediaPart(kind, mime, b64) == [kind |-> kind, text |-> <<>>, mimeType |-> mime, data |-> b64]

\* Python's `a or b` on an optional string.
PyOr(a, b) == IF a \in {None, ""} THEN b ELSE a

----------------------------------------------------------------------------
(* JSON values and Python subscripting, as used on resp.json() *)

JObj(f) == [k |-> "obj", o |-> f, a |-> <<>>, s |-> <<>>]
JArr(q) == [k |-> "arr", o |-> <<>>, a |-> q, s |-> <<>>]
JStr(t) == [k |-> "str", o |-> <<>>, a |-> <<>>, s |-> t]
JNull == [k |-> "null", o |-> <<>>, a |-> <<>>, s |-> <<>>]

Key(name) == [isKey |-> TRUE, name |-> name, idx |-> 0]
Idx(i) == [isKey |-> FALSE, name |-> "", idx |-> i]

\* x[key]: err is set where Python raises KeyError, IndexError or TypeError.
Subscript(x, key) ==
    CASE x.k = "obj" ->
            IF key.isKey /\ key.name \in DOMAIN x.o
            THEN [err |-> FALSE, v |-> x.o[key.name]]
            ELSE [err |-> TRUE, v |-> JNull]
      [] x.k = "arr" ->
            IF ~key.isKey /\ key.idx + 1 \in DOMAIN x.a
            THEN [err |-> FALSE, v |-> x.a[key.idx + 1]]
            ELSE [err |-> TRUE, v |-> JNull]
      [] x.k = "str" ->
            IF ~key.isKey /\ key.idx + 1 \in DOMAIN x.s
            THEN [err |-> FALSE, v |-> JStr(<<x.s[key.idx + 1]>>)]
            ELSE [err |-> TRUE, v |-> JNull]
      [] OTHER -> [err |-> TRUE, v |-> JNull]

RECURSIVE SubscriptPath(_, _)
SubscriptPath(x, path) ==
    IF path = <<>> THEN [err |-> FALSE, v |-> x]
    ELSE LET r == Subscript(x, Head(path))
         IN  IF r.err THEN r ELSE SubscriptPath(r.v, Tail(path))

----------------------------------------------------------------------------
(* Completion provider *)

RECURSIVE Flatten(_)
Flatten(parts) ==
    IF parts = <<>> THEN <<>>
    ELSE Head(parts).text \o <<Head(parts).mimeType>> \o Head(parts).data
         \o Flatten(Tail(parts))

\* Text the provider generates for a request: a function of that request only.
Answer(parts) == <<"Gemini says:">> \o Flatten(parts)

Candidates(content) == JObj("candidates" :> JArr(<<JObj("content" :> content)>>))

HttpErrors == {"transport_error", "http_500", "http_429"}

JsonBodies ==
    {"ok", "empty_object", "error_object", "empty_candidates", "candidate_no_content",
     "content_no_parts", "empty_parts", "part_no_text", "candidates_string",
     "parts_string", "top_array", "top_null"}

Responses == HttpErrors \cup {"not_json"} \cup JsonBodies

\* 2xx responses whose body is not the expected candidates/content/parts/text shape.
MalformedBodies == (JsonBodies \ {"ok"}) \cup {"not_json"}

\* The parsed body of a 2xx JSON response.
Body(name, parts) ==
    CASE name = "ok" ->
            Candidates(JObj("parts" :> JArr(<<JObj("text" :> JStr(Answer(parts)))>>)))
      [] name = "empty_object" -> JObj(<<>>)
      [] name = "error_object" -> JObj("error" :> JStr(<<"quota">>))
      [] name = "empty_candidates" -> JObj("candidates" :> JArr(<<>>))
      [] name = "candidate_no_content" ->
            JObj("candidates" :> JArr(<<JObj("finishReason" :> JStr(<<"SAFETY">>))>>))
      [] name = "content_no_parts" -> Candidates(JObj("role" :> JStr(<<"model">>)))
      [] name = "empty_parts" -> Candidates(JObj("parts" :> JArr(<<>>)))
      [] name = "part_no_text" ->
            Candidates(JObj("parts" :> JArr(<<JObj("inlineData" :> JStr(<<"x">>))>>)))
      [] name = "candidates_string" -> JObj("candidates" :> JStr(<<"a", "b">>))
      [] name = "parts_string" -> Candidates(JObj("parts" :> JStr(<<"a", "b">>)))
      [] name = "top_array" -> JArr(<<>>)
      [] OTHER -> JNull

ExceptionOf(r) ==
    CASE r = "transport_error" -> "ConnectionError"
      [] r \in {"http_500", "http_429"} -> "HTTPError"
      [] r = "not_json" -> "JSONDecodeError"
      [] OTHER -> ""

\* str(e) of the exception a response makes call_gemini raise.
ExceptionText(r) ==
    CASE r = "transport_error" -> <<"Connection aborted.">>
      [] r = "http_500" -> <<"500 Server Error">>
      [] r = "http_429" -> <<"429 Client Error">>
      [] r = "not_json" -> <<"Expecting value: line 1 column 1 (char 0)">>
      [] OTHER -> <<>>

NoResult == [raised |-> FALSE, exc |-> "", value |-> <<>>]

Raise(r) == [raised |-> TRUE, exc |-> ExceptionOf(r), value |-> ExceptionText(r)]

Return(v) == [raised |-> FALSE, exc |-> "", value |-> v]

ResponsePath ==
    <<Key("candidates"), Idx(0), Key("content"), Key("parts"), Idx(0), Key("text")>>

\* call_gemini(parts) when the provider answers with response r.
call_gemini(parts, r) ==
    IF r \in HttpErrors THEN Raise(r)              \* requests.post / raise_for_status
    ELSE IF r = "not_json" THEN Raise(r)           \* resp.json(), outside the try
    ELSE LET x == SubscriptPath(Body(r, parts), ResponsePath)
         IN  IF x.err THEN Return(<<"Gemini returned an unexpected response.">>)
             ELSE Return(x.v.s)

----------------------------------------------------------------------------
(* Dispatcher: the handlers main() registers, and Application.process_update *)

Handlers ==
    <<"start_command", "text_handler", "photo_handler", "document_handler",
      "audio_handler", "video_handler">>

MessageHandlers == {"text_handler", "photo_handler", "document_handler", "audio_handler", "video_handler"}

FilterTEXT(m) == m.text # <<>>
FilterCOMMAND(m) == m.text # <<>> /\ Head(m.text) \in {"/start", "/help"}
FilterPHOTO(m) == m.photo # <<>>
FilterDocumentALL(m) == m.document.present
FilterVOICE(m) == m.voice.present
FilterAUDIO(m) == m.audio.present
FilterVIDEO(m) == m.video.present

\* handler.check_update(update) of the handler registered for callback h.
CheckUpdate(h, m) ==
    CASE h = "start_command" -> m.text # <<>> /\ Head(m.text) = "/start"
      [] h = "text_handler" -> FilterTEXT(m) /\ ~FilterCOMMAND(m)
      [] h = "photo_handler" -> FilterPHOTO(m)
      [] h = "document_handler" -> FilterDocumentALL(m)
      [] h = "audio_handler" -> FilterVOICE(m) \/ FilterAUDIO(m)
      [] h = "video_handler" -> FilterVIDEO(m)
      [] OTHER -> FALSE

\* Faulty variant of ProcessUpdate: the loop over the handlers lacks its break.
RECURSIVE ProcessUpdateNoBreak(_, _)
ProcessUpdateNoBreak(handlers, m) ==
    IF handlers = <<>> THEN <<>>
    ELSE IF CheckUpdate(Head(handlers), m)
         THEN <<Head(handlers)>> \o ProcessUpdateNoBreak(Tail(handlers), m)
    ELSE ProcessUpdateNoBreak(Tail(handlers), m)

\* The callbacks process_update runs for a message: the handlers of the one
\* group are tried in registration order and the loop breaks at the first match.
RECURSIVE ProcessUpdate(_, _)
ProcessUpdate(handlers, m) ==
    IF handlers = <<>> THEN <<>>
    ELSE IF CheckUpdate(Head(handlers), m) THEN <<Head(handlers)>>
    ELSE ProcessUpdate(Tail(handlers), m)

Handler(t) == IF invoked[t] = <<>> THEN "none" ELSE Head(invoked[t])

----------------------------------------------------------------------------
(* Handler bodies *)

Greeting == <<"Hello! I am your multimodal Gemini 2.5-flash bot.\n", "Send text, images, audio, video, or PDFs.">>

ErrorString(h) ==
    CASE h = "text_handler" -> <<"Error contacting Gemini.">>
      [] h = "photo_handler" -> <<"Error processing image.">>
      [] h = "document_handler" -> <<"Error processing PDF.">>
      [] h = "audio_handler" -> <<"Error processing audio.">>
      [] h = "video_handler" -> <<"Error processing video.">>
      [] OTHER -> <<>>

\* Faulty variant of HandlerReply: the except branch answers with str(e).
HandlerReplyRaw(h, res) == res.value

\* try: reply = call_gemini(parts) / except Exception: reply = <error string>
HandlerReply(h, res) == IF res.raised THEN ErrorString(h) ELSE res.value

\* Faulty variant of TextParts: an instruction part precedes the user's text.
TextPartsPrefixed(m) == <<TextPart(<<"Please answer:">>), TextPart(m.text)>>

TextParts(m) == <<TextPart(m.text)>>

PhotoParts(b64) ==
    <<TextPart(<<"Please analyze this image:">>), MediaPart("image", "image/jpeg", b64)>>

AudioParts(audio, b64) ==
    <<TextPart(<<"Please transcribe or analyze this audio:">>),
      MediaPart("audio", PyOr(audio.mime_type, "audio/ogg"), b64)>>

VideoParts(video, b64) ==
    <<TextPart(<<"Please analyze this video:">>), MediaPart("video", "video/mp4", b64)>>

\* message.effective_attachment: the first attachment present, in the order of
\* MessageAttachmentType (a photo never reaches the handler that reads it).
EffectiveAttachment(m) ==
    IF m.audio.present THEN m.audio
    ELSE IF m.document.present THEN m.document
    ELSE IF m.video.present THEN m.video
    ELSE IF m.voice.present THEN m.voice
    ELSE NoAtt

\* The object a handler calls get_file() on.
AttachmentOf(h, m) ==
    CASE h = "photo_handler" -> Att(None, m.photo[Len(m.photo)])
      [] h = "document_handler" -> m.document
      [] h = "audio_handler" ->
            IF EffectiveAttachment(m).present THEN EffectiveAttachment(m) ELSE m.voice
      [] h = "video_handler" -> m.video
      [] OTHER -> NoAtt

\* page.extract_text() results: a str, or None.
PageText(s) == [isNone |-> FALSE, s |-> s]
NonePage == [isNone |-> TRUE, s |-> <<>>]
PageValues == {NonePage, PageText(<<>>), PageText(<<"Hello">>), PageText(<<"World">>)}

PageLists == UNION {[1..n -> PageValues] : n \in 0..MaxPages}

\* Faulty variant of PageOrEmpty: a page without text is formatted as str(None).
PageOrNone(page) == IF page.isNone THEN <<"None">> ELSE page.s

\* page.extract_text() or ""
PageOrEmpty(page) == IF page.isNone \/ page.s = <<>> THEN <<>> ELSE page.s

RECURSIVE Join(_, _)
Join(sep, strs) ==
    IF strs = <<>> THEN <<>>
    ELSE IF Len(strs) = 1 THEN strs[1]
    ELSE strs[1] \o sep \o Join(sep, Tail(strs))

ExtractText(pages) == Join(<<"\n">>, [i \in DOMAIN pages |-> PageOrEmpty(pages[i])])

PdfPrompt(text) == <<"Extracted text from PDF:\n">> \o text \o <<"\n\nPlease summarize.">>

PdfParts(pages) == <<TextPart(PdfPrompt(ExtractText(pages)))>>

Unsupported(doc) == <<"Unsupported document type: ", doc.mime_type>>

\* Faulty variant of Frame: the buffer is one module-level object shared by all handlers.
FrameShared(t) == "t1"

\* `bio = BytesIO()` is a local of the handler call: each running handler has
\* its own frame.
Frame(t) == t

\* update.message.reply_text(...) answers in the chat of the message.
ReplyTarget(m) == m.chat

----------------------------------------------------------------------------
(* Environment offered to the handlers.  With interleaved handlers the      *)
(* inputs are the single-content messages and a representative of each     *)
(* provider outcome, which keeps the product of two handlers explorable.   *)

Inbound == IF concurrent_updates THEN PlainMessages ELSE Messages

Offered ==
    IF concurrent_updates THEN {"ok", "http_500", "not_json", "empty_candidates"}
    ELSE Responses

Parsed ==
    IF concurrent_updates THEN {<<PageText(<<"Hello">>), NonePage, PageText(<<"World">>)>>}
    ELSE PageLists

----------------------------------------------------------------------------
(* Actions *)

TypeOK ==
    /\ concurrent_updates \in BOOLEAN
    /\ pc \in [Tasks -> {"idle", "handler", "got_file", "downloaded", "reply", "done", "raised"}]
    /\ \A t \in Tasks : Len(invoked[t]) <= 1 /\ Len(sent[t]) <= 1

InitTasks ==
    /\ pc = [t \in Tasks |-> "idle"]
    /\ msg = [t \in Tasks |-> NoMsg]
    /\ invoked = [t \in Tasks |-> <<>>]
    /\ file = [t \in Tasks |-> NoAtt]
    /\ bio = [t \in Tasks |-> <<>>]
    /\ reader = [t \in Tasks |-> <<>>]
    /\ requests = [t \in Tasks |-> <<>>]
    /\ resp = [t \in Tasks |-> "none"]
    /\ result = [t \in Tasks |-> NoResult]
    /\ reply = [t \in Tasks |-> <<>>]
    /\ sent = [t \in Tasks |-> <<>>]

\* ApplicationBuilder().token(...).build(): updates are processed one at a time.
Init == concurrent_updates = FALSE /\ InitTasks

\* The same application built with concurrent update processing.
InitConc == concurrent_updates = TRUE /\ InitTasks

\* run_polling fetches an update and process_update picks its handler.
Arrive(t) ==
    /\ pc[t] = "idle"
    /\ concurrent_updates \/ \A u \in Tasks : pc[u] = "idle"
    /\ \E m \in Inbound :
        /\ msg' = [msg EXCEPT ![t] = m]
        /\ invoked' = [invoked EXCEPT ![t] = ProcessUpdate(Handlers, m)]
        /\ pc' = [pc EXCEPT ![t] = IF ProcessUpdate(Handlers, m) = <<>> THEN "done" ELSE "handler"]
    /\ UNCHANGED <<concurrent_updates, file, bio, reader, requests, resp, result, reply, sent>>

SendTo(t, text) == [sent EXCEPT ![t] = Append(@, [chat |-> ReplyTarget(msg[t]), text |-> text])]

start_command(t) ==
    /\ pc[t] = "handler" /\ Handler(t) = "start_command"
    /\ sent' = SendTo(t, Greeting)
    /\ pc' = [pc EXCEPT ![t] = "done"]
    /\ UNCHANGED <<concurrent_updates, msg, invoked, file, bio, reader, requests, resp, result, reply>>

\* The synchronous stretch build parts -> call_gemini -> except, up to the
\* await of reply_text.
Complete(t, parts, r) ==
    /\ requests' = [requests EXCEPT ![t] = Append(@, parts)]
    /\ resp' = [resp EXCEPT ![t] = r]
    /\ result' = [result EXCEPT ![t] = call_gemini(parts, r)]
    /\ reply' = [reply EXCEPT ![t] = HandlerReply(Handler(t), call_gemini(parts, r))]
    /\ pc' = [pc EXCEPT ![t] = "reply"]
    /\ UNCHANGED <<concurrent_updates, msg, invoked, file, bio, sent>>

text_handler(t) ==
    /\ pc[t] = "handler" /\ Handler(t) = "text_handler"
    /\ \E r \in Offered : Complete(t, TextParts(msg[t]), r)
    /\ UNCHANGED reader

\* Faulty variant of NeedsFile: the document is fetched before its MIME type is looked at.
NeedsFileAnyDocument(t) ==
    Handler(t) \in {"photo_handler", "document_handler", "audio_handler", "video_handler"}

\* The handler goes on to get_file(): every media handler, and the document
\* handler inside `if doc.mime_type == 'application/pdf'`.
NeedsFile(t) ==
    \/ Handler(t) \in {"photo_handler", "audio_handler", "video_handler"}
    \/ Handler(t) = "document_handler" /\ msg[t].document.mime_type = "application/pdf"

\* await ....get_file()
GetFile(t) ==
    /\ pc[t] = "handler" /\ NeedsFile(t)
    /\ file' = [file EXCEPT ![t] = AttachmentOf(Handler(t), msg[t])]
    /\ pc' = [pc EXCEPT ![t] = "got_file"]
    /\ UNCHANGED <<concurrent_updates, msg, invoked, bio, reader, requests, resp, result, reply, sent>>

\* An exception leaves the handler: nothing in it catches outside the try.
Propagate(t) ==
    /\ pc' = [pc EXCEPT ![t] = "raised"]
    /\ UNCHANGED <<concurrent_updates, msg, invoked, file, bio, reader, requests, resp, result, reply, sent>>

GetFileFails(t) ==
    /\ pc[t] = "handler" /\ NeedsFile(t)
    /\ Propagate(t)

\* await file.download_to_memory(out=bio) / file.download_as_bytearray()
Download(t) ==
    /\ pc[t] = "got_file"
    /\ bio' = [bio EXCEPT ![Frame(t)] = Storage(msg[t].chat, file[t].file_id)]
    /\ pc' = [pc EXCEPT ![t] = "downloaded"]
    /\ UNCHANGED <<concurrent_updates, msg, invoked, file, reader, requests, resp, result, reply, sent>>

DownloadFails(t) ==
    /\ pc[t] = "got_file"
    /\ Propagate(t)

photo_handler(t) ==
    /\ pc[t] = "downloaded" /\ Handler(t) = "photo_handler"
    /\ \E r \in Offered : Complete(t, PhotoParts(B64Encode(bio[Frame(t)])), r)
    /\ UNCHANGED reader

audio_handler(t) ==
    /\ pc[t] = "downloaded" /\ Handler(t) = "audio_handler"
    /\ \E r \in Offered : Complete(t, AudioParts(file[t], B64Encode(bio[Frame(t)])), r)
    /\ UNCHANGED reader

video_handler(t) ==
    /\ pc[t] = "downloaded" /\ Handler(t) = "video_handler"
    /\ \E r \in Offered : Complete(t, VideoParts(file[t], B64Encode(bio[Frame(t)])), r)
    /\ UNCHANGED reader

\* PdfReader(bio) and the page loop read the document as `pages`.
document_handler_pdf(t) ==
    /\ pc[t] = "downloaded" /\ Handler(t) = "document_handler"
    /\ \E pages \in Parsed :
        /\ reader' = [reader EXCEPT ![t] = pages]
        /\ \E r \in Offered : Complete(t, PdfParts(pages), r)

\* PdfReader or extract_text raises on a damaged document.
PdfReadFails(t) ==
    /\ pc[t] = "downloaded" /\ Handler(t) = "document_handler"
    /\ Propagate(t)

document_handler_other(t) ==
    /\ pc[t] = "handler" /\ Handler(t) = "document_handler"
    /\ msg[t].document.mime_type # "application/pdf"
    /\ reply' = [reply EXCEPT ![t] = Unsupported(msg[t].document)]
    /\ pc' = [pc EXCEPT ![t] = "reply"]
    /\ UNCHANGED <<concurrent_updates, msg, invoked, file, bio, reader, requests, resp, result, sent>>

\* await update.message.reply_text(reply)
SendReply(t) ==
    /\ pc[t] = "reply"
    /\ sent' = SendTo(t, reply[t])
    /\ pc' = [pc EXCEPT ![t] = "done"]
    /\ UNCHANGED <<concurrent_updates, msg, invoked, file, bio, reader, requests, resp, result, reply>>

\* The handler coroutine is over (returned or raised); its locals are dropped.
HandlerEnds(t) ==
    /\ pc[t] \in {"done", "raised"}
    /\ pc' = [pc EXCEPT ![t] = "idle"]
    /\ msg' = [msg EXCEPT ![t] = NoMsg]
    /\ invoked' = [invoked EXCEPT ![t] = <<>>]
    /\ file' = [file EXCEPT ![t] = NoAtt]
    /\ bio' = [bio EXCEPT ![Frame(t)] = <<>>]
    /\ reader' = [reader EXCEPT ![t] = <<>>]
    /\ requests' = [requests EXCEPT ![t] = <<>>]
    /\ resp' = [resp EXCEPT ![t] = "none"]
    /\ result' = [result EXCEPT ![t] = NoResult]
    /\ reply' = [reply EXCEPT ![t] = <<>>]
    /\ sent' = [sent EXCEPT ![t] = <<>>]
    /\ UNCHANGED concurrent_updates

Next ==
    \/ \E t \in Tasks : Arrive(t)
    \/ \E t \in Tasks : start_command(t)
    \/ \E t \in Tasks : text_handler(t)
    \/ \E t \in Tasks : GetFile(t)
    \/ \E t \in Tasks : GetFileFails(t)
    \/ \E t \in Tasks : Download(t)
    \/ \E t \in Tasks : DownloadFails(t)
    \/ \E t \in Tasks : photo_handler(t)
    \/ \E t \in Tasks : audio_handler(t)
    \/ \E t \in Tasks : video_handler(t)
    \/ \E t \in Tasks : document_handler_pdf(t)
    \/ \E t \in Tasks : PdfReadFails(t)
    \/ \E t \in Tasks : document_handler_other(t)
    \/ \E t \in Tasks : SendReply(t)
    \/ \E t \in Tasks : HandlerEnds(t)

Spec == Init /\ [][Next]_vars

SpecConc == InitConc /\ [][Next]_vars

----------------------------------------------------------------------------
(* Claims *)

Finished(t) == pc[t] \in {"done", "raised"}

Replied(t) == pc[t] \in {"reply", "done"}

\* C1 (as claimed): every message handled by one of the five message handlers
\* ends, on every path, with exactly one reply sent to its own chat.
C1_ExactlyOneReply ==
    \A t \in Tasks :
        Finished(t) /\ Handler(t) \in MessageHandlers =>
            /\ Len(sent[t]) = 1
            /\ sent[t][1].chat = msg[t].chat

\* C2 (as claimed): a failure while fetching, downloading or reading the
\* attachment never leaves a media handler; the handler ends having sent its
\* modality's error string.
C2_NormalizationFailureCaught ==
    \A t \in Tasks :
        Handler(t) \in {"photo_handler", "document_handler", "audio_handler", "video_handler"}
            => pc[t] # "raised"

\* C3: when call_gemini raised an HTTP error (non-2xx status or transport
\* error), the handler's reply is its modality's fixed error string, never the
\* exception text, and that string is what is sent.
C3_HttpErrorGivesFixedString ==
    \A t \in Tasks :
        Replied(t) /\ resp[t] \in HttpErrors =>
            LET expected ==
                    CASE Handler(t) = "text_handler" -> <<"Error contacting Gemini.">>
                      [] Handler(t) = "photo_handler" -> <<"Error processing image.">>
                      [] Handler(t) = "document_handler" -> <<"Error processing PDF.">>
                      [] Handler(t) = "audio_handler" -> <<"Error processing audio.">>
                      [] Handler(t) = "video_handler" -> <<"Error processing video.">>
            IN  /\ result[t].raised
                /\ reply[t] = expected
                /\ reply[t] # ExceptionText(resp[t])
                /\ pc[t] = "done" => sent[t] = <<[chat |-> msg[t].chat, text |-> expected]>>

C3_Witness ==
    \E t \in Tasks :
        /\ pc[t] = "done" /\ resp[t] = "http_500" /\ Handler(t) = "video_handler"
        /\ sent[t] # <<>>

\* C4 (as claimed): on a 2xx response whose body is malformed or lacks the
\* expected fields call_gemini returns the fallback string and does not raise;
\* on a well-formed body it returns the first candidate's first part's text.
C4_MalformedBodyGivesFallback ==
    \A t \in Tasks :
        /\ resp[t] \in MalformedBodies =>
            /\ ~result[t].raised
            /\ result[t].value = <<"Gemini returned an unexpected response.">>
        /\ resp[t] = "ok" =>
            /\ ~result[t].raised
            /\ result[t].value = Answer(requests[t][1])

\* C5: a document whose MIME type is not application/pdf causes no download
\* and no request to the completion provider, and its reply is exactly
\* "Unsupported document type: <mime type>".
C5_UnsupportedDocumentNoCall ==
    \A t \in Tasks :
        Handler(t) = "document_handler" /\ msg[t].document.mime_type # "application/pdf" =>
            LET text == <<"Unsupported document type: ", msg[t].document.mime_type>>
            IN  /\ requests[t] = <<>>
                /\ resp[t] = "none"
                /\ file[t] = NoAtt
                /\ bio[t] = <<>>
                /\ pc[t] # "raised"
                /\ Replied(t) => reply[t] = text
                /\ pc[t] = "done" => sent[t] = <<[chat |-> msg[t].chat, text |-> text]>>

C5_Witness ==
    \E t \in Tasks :
        /\ pc[t] = "done" /\ Handler(t) = "document_handler"
        /\ msg[t].document.mime_type = "application/zip"
        /\ sent[t] # <<>>

\* C6: for a text message the parts list passed to the completion client has
\* exactly one element, a text part equal to the message body.
C6_TextRequestIsMessageBody ==
    \A t \in Tasks :
        Handler(t) = "text_handler" /\ Replied(t) =>
            /\ Len(requests[t]) = 1
            /\ Len(requests[t][1]) = 1
            /\ requests[t][1][1].kind = "text"
            /\ requests[t][1][1].text = msg[t].text

C6_Witness ==
    \E t \in Tasks :
        /\ pc[t] = "done" /\ Handler(t) = "text_handler"
        /\ msg[t].text = <<"hello">> /\ resp[t] = "ok"

\* C7 (as claimed): every inbound message runs exactly one handler.
C7_ExactlyOneHandler ==
    \A t \in Tasks : pc[t] # "idle" => Len(invoked[t]) = 1

\* C7 (amended): every inbound message runs at most one handler, the earliest
\* registered one whose filter matches, in the order /start command,
\* non-command text, photo, document, voice or audio, video; a message that
\* matches none of them runs no handler.
C7_EarliestMatchingHandlerOnly ==
    \A t \in Tasks :
        pc[t] # "idle" =>
            LET m == msg[t]
                command == m.text # <<>> /\ Head(m.text) \in {"/start", "/help"}
            IN  invoked[t] =
                    IF m.text # <<>> /\ Head(m.text) = "/start" THEN <<"start_command">>
                    ELSE IF m.text # <<>> /\ ~command THEN <<"text_handler">>
                    ELSE IF m.photo # <<>> THEN <<"photo_handler">>
                    ELSE IF m.document.present THEN <<"document_handler">>
                    ELSE IF m.voice.present \/ m.audio.present THEN <<"audio_handler">>
                    ELSE IF m.video.present THEN <<"video_handler">>
                    ELSE <<>>

C7_Witness ==
    \E t \in Tasks :
        /\ pc[t] = "done"
        /\ msg[t].photo # <<>> /\ msg[t].video.present
        /\ invoked[t] = <<"photo_handler">>
        /\ sent[t] # <<>>

\* C8: with handlers of two chats interleaved, every reply is sent to the chat
\* of the message it answers and is built from that message alone: the media
\* data of its request is the encoding of a file of its own chat and message,
\* and the answer relayed is the provider's answer to that request.
C8_NoCrossDelivery ==
    \A t \in Tasks :
        LET m == msg[t]
            ownFiles ==
                {m.photo[i] : i \in DOMAIN m.photo}
                    \cup {m.document.file_id, m.audio.file_id, m.voice.file_id, m.video.file_id}
            ownData == {B64Encode(Storage(m.chat, f)) : f \in ownFiles}
        IN  /\ \A i \in DOMAIN sent[t] :
                /\ sent[t][i].chat = m.chat
                /\ Handler(t) # "start_command" => sent[t][i].text = reply[t]
            /\ \A j \in DOMAIN requests[t] : \A k \in DOMAIN requests[t][j] :
                requests[t][j][k].kind # "text" => requests[t][j][k].data \in ownData
            /\ Replied(t) /\ resp[t] = "ok" => reply[t] = Answer(requests[t][1])

C8_Witness ==
    \E t, u \in Tasks :
        /\ msg[t].chat = "A" /\ msg[u].chat = "B"
        /\ pc[t] = "done" /\ pc[u] = "reply"
        /\ Handler(t) = "photo_handler" /\ Handler(u) = "audio_handler"
        /\ resp[t] = "ok" /\ resp[u] = "ok"
        /\ sent[t] # <<>>

\* The text block of a PDF, built from its last page backwards.
RECURSIVE C9_Block(_)
C9_Block(pages) ==
    IF pages = <<>> THEN <<>>
    ELSE LET n == Len(pages)
             last == IF pages[n].isNone THEN <<>> ELSE pages[n].s
         IN  IF n = 1 THEN last
             ELSE C9_Block(SubSeq(pages, 1, n - 1)) \o <<"\n">> \o last

\* C9: for a PDF document the request is a single text part, the summarization
\* instruction wrapped around the pages' texts joined in page order by a
\* newline, a page without text counting as the empty string; the pages
\* "Hello", "", "World" give the block "Hello\n\nWorld".
C9_PdfRequestIsJoinedPages ==
    \A t \in Tasks :
        /\ Handler(t) = "document_handler"
        /\ msg[t].document.mime_type = "application/pdf"
        /\ Replied(t)
        => /\ requests[t] =
                <<<<[kind |-> "text",
                     text |-> <<"Extracted text from PDF:\n">> \o C9_Block(reader[t])
                                \o <<"\n\nPlease summarize.">>,
                     mimeType |-> "", data |-> <<>>]>>>>
           /\ \A middle \in {NonePage, PageText(<<>>)} :
                reader[t] = <<PageText(<<"Hello">>), middle, PageText(<<"World">>)>> =>
                    requests[t][1][1].text =
                        <<"Extracted text from PDF:\n", "Hello", "\n", "\n", "World",
                          "\n\nPlease summarize.">>

C9_Witness ==
    \E t \in Tasks :
        /\ pc[t] = "done" /\ Handler(t) = "document_handler"
        /\ reader[t] = <<PageText(<<"Hello">>), NonePage, PageText(<<"World">>)>>
        /\ Len(requests[t]) = 1

\* C10 (as claimed): the media part of a photo, audio/voice or video request
\* carries the MIME type the platform reported for the attachment, and the
\* kind's default only when the platform reported none.
C10_MediaPartCarriesPlatformMime ==
    \A t \in Tasks :
        Replied(t) /\ Handler(t) \in {"photo_handler", "audio_handler", "video_handler"} =>
            LET default ==
                    CASE Handler(t) = "photo_handler" -> "image/jpeg"
                      [] Handler(t) = "audio_handler" -> "audio/ogg"
                      [] Handler(t) = "video_handler" -> "video/mp4"
            IN  requests[t][1][2].mimeType =
                    IF file[t].mime_type # None THEN file[t].mime_type ELSE default

====
